---- MODULE Spec2Model ----
(***************************************************************************)
(* Model of src/src/node.rs: the Node of a linked binary min-heap.         *)
(*                                                                         *)
(* A Node holds an i32 `value`, a Weak<Node> `parent` and a                *)
(* Vec<Rc<Node>> `children`.  Nodes are heap cells identified by the       *)
(* natural numbers 1..alloc in creation order; 0 stands for the empty      *)
(* Weak (Weak::new()).  The caller owns one Rc handle for every node it    *)
(* obtained from new_orphan and has not dropped yet.  A cell is freed when *)
(* its strong count (handles plus entries of children vectors of live      *)
(* cells) reaches zero, as Rc does; freeing a cell drops its children      *)
(* vector.                                                                 *)
(***************************************************************************)
EXTENDS Integers, Sequences, FiniteSets

\* Bounds of the model.
MaxNodes == 3
MaxChildren == 2
MaxValue == 1
MaxCalls == 6

NodeIds == 1..MaxNodes
Values == 0..MaxValue

VARIABLES
    calls,      \* number of calls made so far (bounded by MaxCalls)
    alloc,      \* number of cells ever allocated; the next cell is alloc + 1
    live,       \* the cells that are still allocated
    handles,    \* the cells the caller holds an Rc<Node> to
    value,      \* Node.value of every live cell
    parent,     \* target of Node.parent (a Weak) of every live cell, 0 if empty
    children,   \* Node.children of every live cell: a sequence of cells
    panicked,   \* TRUE when the last call panicked; the caller may catch the unwind and go on
    aborted,    \* TRUE once the process was aborted (stack overflow): nothing runs any more
    result,     \* outcome of the last call: [status, ret]
    call,       \* history: the last call, [op, p, c, v]
    pre,        \* history: value, parent, children, live before the last call
    attached,   \* history: per live cell, the cells attached or linked to it, in order
    swapRun,    \* history: consecutive swap calls on the same pair (at most 2)
    runStart    \* history: value before the first swap call of the run

vars == <<calls, alloc, live, handles, value, parent, children, panicked, aborted,
          result, call, pre, attached, swapRun, runStart>>

Range(s) == {s[i] : i \in 1..Len(s)}

Snapshot == [value |-> value, parent |-> parent, children |-> children, live |-> live]

Unit == <<>>

----------------------------------------------------------------------------
\* Rc and Weak.

\* Rc::strong_count of cell n when the cells L are allocated, the caller holds
\* the handles H and ch gives the children vectors.
strong_count(n, L, H, ch) ==
    (IF n \in H THEN 1 ELSE 0)
    + Cardinality(UNION {{<<p, i>> : i \in {j \in 1..Len(ch[p]) : ch[p][j] = n}} : p \in L})

\* The cells left allocated after every cell whose strong count fell to zero
\* has been freed, each freed cell dropping its children vector in turn.
RECURSIVE Release(_, _, _)
Release(L, H, ch) ==
    LET dead == {n \in L : strong_count(n, L, H, ch) = 0}
    IN  IF dead = {} THEN L ELSE Release(L \ dead, H, ch)

\* child.parent.borrow().upgrade(): the parent cell if it is still allocated,
\* 0 (None) otherwise.
upgrade(w) == IF w \in live THEN w ELSE 0

parent_upgrade(n) == upgrade(parent[n])

----------------------------------------------------------------------------
\* Read accessors.

get_value(self) == value[self]

RECURSIVE ChildValuesFrom(_, _, _)
ChildValuesFrom(self, i, acc) ==
    IF i > Len(children[self]) THEN acc
    ELSE ChildValuesFrom(self, i + 1, Append(acc, get_value(children[self][i])))

get_child_values_rev(self) ==
    [i \in 1..Len(children[self]) |->
        get_value(children[self][Len(children[self]) + 1 - i])]

get_child_values(self) == ChildValuesFrom(self, 1, <<>>)

----------------------------------------------------------------------------
\* Ownership graph.

\* The cells owned directly by a cell of S.
Owned(S) == UNION {Range(children[m]) : m \in S \cap live}

\* The live cells a Weak of a cell of S resolves to.
Referred(S) == {parent_upgrade(m) : m \in S \cap live} \ {0}

RECURSIVE OwnedClosure(_, _)
OwnedClosure(S, k) == IF k = 0 THEN S ELSE OwnedClosure(S \cup Owned(S), k - 1)

RECURSIVE ReferredClosure(_, _)
ReferredClosure(S, k) == IF k = 0 THEN S ELSE ReferredClosure(S \cup Referred(S), k - 1)

Descendants(n) == OwnedClosure(Owned({n}), Cardinality(live))

Ancestors(n) == ReferredClosure(Referred({n}), Cardinality(live))

\* The cells the caller can reach from its handles along owning edges.
Reachable == OwnedClosure(handles, Cardinality(live))

\* Whether Debug-formatting cell w never ends.  The derived Debug of Node prints
\* value, the Weak as an opaque token and then every child in turn, so it
\* recurses without end exactly when a cycle of children edges can be reached
\* from w; the stack overflows and the process is aborted.
fmt_overflows(w) ==
    \E n \in OwnedClosure({w}, Cardinality(live)) : n \in Descendants(n)

\* The values the derived Debug of cell n prints, in printing order: the
\* cell's own value, then (the Weak printing as an opaque token) each child's
\* text in children order.  Defined when fmt_overflows(n) is false.
RECURSIVE fmt(_)
RECURSIVE FmtChildren(_, _)
fmt(n) == <<value[n]>> \o FmtChildren(children[n], 1)
FmtChildren(cs, i) == IF i > Len(cs) THEN <<>> ELSE fmt(cs[i]) \o FmtChildren(cs, i + 1)

----------------------------------------------------------------------------
\* Operations.

Init ==
    /\ calls = 0
    /\ alloc = 0
    /\ live = {}
    /\ handles = {}
    /\ value = [n \in {} |-> 0]
    /\ parent = [n \in {} |-> 0]
    /\ children = [n \in {} |-> <<>>]
    /\ panicked = FALSE
    /\ aborted = FALSE
    /\ result = [status |-> "none", ret |-> Unit]
    /\ call = [op |-> "none", p |-> 0, c |-> 0, v |-> 0]
    /\ pre = [value |-> [n \in {} |-> 0], parent |-> [n \in {} |-> 0],
              children |-> [n \in {} |-> <<>>], live |-> {}]
    /\ attached = [n \in {} |-> <<>>]
    /\ swapRun = 0
    /\ runStart = [n \in {} |-> 0]

Record(op, p, c, v) ==
    /\ ~aborted
    /\ calls < MaxCalls
    /\ calls' = calls + 1
    /\ call' = [op |-> op, p |-> p, c |-> c, v |-> v]
    /\ pre' = Snapshot

NoSwapRun == swapRun' = 0 /\ runStart' = [n \in {} |-> 0]

\* Node::new_orphan(value): the caller receives the Rc of a fresh cell.
new_orphan(v) ==
    /\ alloc < MaxNodes
    /\ LET n == alloc + 1 IN
        /\ alloc' = n
        /\ live' = live \cup {n}
        /\ handles' = handles \cup {n}
        /\ value' = [m \in live \cup {n} |-> IF m = n THEN v ELSE value[m]]
        /\ parent' = [m \in live \cup {n} |-> IF m = n THEN 0 ELSE parent[m]]
        /\ children' = [m \in live \cup {n} |-> IF m = n THEN <<>> ELSE children[m]]
        /\ attached' = [m \in live \cup {n} |-> IF m = n THEN <<>> ELSE attached[m]]
        /\ result' = [status |-> "ok", ret |-> Unit]
        /\ Record("new_orphan", 0, n, v)
    /\ NoSwapRun
    /\ panicked' = FALSE
    /\ UNCHANGED aborted

new_child_front(p, child_value) ==
    /\ p \in handles
    /\ alloc < MaxNodes
    /\ Len(children[p]) < MaxChildren
    /\ LET n == alloc + 1 IN
        /\ alloc' = n
        /\ live' = live \cup {n}
        /\ value' = [m \in live \cup {n} |-> IF m = n THEN child_value ELSE value[m]]
        /\ parent' = [m \in live \cup {n} |-> IF m = n THEN p ELSE parent[m]]
        /\ children' = [m \in live \cup {n} |->
                          IF m = n THEN <<>>
                          ELSE IF m = p THEN <<n>> \o children[p]
                          ELSE children[m]]
        /\ attached' = [m \in live \cup {n} |->
                          IF m = n THEN <<>>
                          ELSE IF m = p THEN Append(attached[p], n)
                          ELSE attached[m]]
        /\ result' = [status |-> "ok", ret |-> Unit]
        /\ Record("new_child", p, n, child_value)
    /\ NoSwapRun
    /\ panicked' = FALSE
    /\ UNCHANGED <<handles, aborted>>

\* Node::new_child(&parent, child_value): a fresh cell whose Weak points at the
\* parent is pushed onto the parent's children; the local Rc is dropped on return.
new_child(p, child_value) ==
    /\ p \in handles
    /\ alloc < MaxNodes
    /\ Len(children[p]) < MaxChildren
    /\ LET n == alloc + 1 IN
        /\ alloc' = n
        /\ live' = live \cup {n}
        /\ value' = [m \in live \cup {n} |-> IF m = n THEN child_value ELSE value[m]]
        /\ parent' = [m \in live \cup {n} |-> IF m = n THEN p ELSE parent[m]]
        /\ children' = [m \in live \cup {n} |->
                          IF m = n THEN <<>>
                          ELSE IF m = p THEN Append(children[p], n)
                          ELSE children[m]]
        /\ attached' = [m \in live \cup {n} |->
                          IF m = n THEN <<>>
                          ELSE IF m = p THEN Append(attached[p], n)
                          ELSE attached[m]]
        /\ result' = [status |-> "ok", ret |-> Unit]
        /\ Record("new_child", p, n, child_value)
    /\ NoSwapRun
    /\ panicked' = FALSE
    /\ UNCHANGED <<handles, aborted>>

\* Node::parent_child(&parent, &child): first prints the child's current parent
\* with {:?} on stdout.  When stdout cannot be written (stdout_ok = FALSE: a
\* full device, a closed pipe) println! panics as soon as its buffer is flushed,
\* which ends the formatting too.  Otherwise, when the formatting overflows the
\* stack, the process is aborted.  In both cases nothing has been written to
\* the nodes.  Otherwise the call overwrites the child's Weak and pushes the
\* child onto the parent's children.  Nothing is checked and nothing is removed
\* from a previous parent.
parent_child(p, c, stdout_ok) ==
    /\ p \in handles
    /\ c \in handles
    /\ Len(children[p]) < MaxChildren
    /\ IF ~stdout_ok
       THEN /\ panicked' = TRUE
            /\ result' = [status |-> "panic: failed printing to stdout", ret |-> Unit]
            /\ UNCHANGED <<parent, children, attached, aborted>>
       ELSE IF parent_upgrade(c) # 0 /\ fmt_overflows(parent_upgrade(c))
       THEN /\ aborted' = TRUE
            /\ result' = [status |-> "abort: stack overflow", ret |-> Unit]
            /\ panicked' = FALSE
            /\ UNCHANGED <<parent, children, attached>>
       ELSE /\ parent' = [parent EXCEPT ![c] = p]
            /\ children' = [children EXCEPT ![p] = Append(@, c)]
            /\ attached' = [attached EXCEPT ![p] = Append(@, c)]
            /\ result' = [status |-> "ok", ret |-> Unit]
            /\ panicked' = FALSE
            /\ UNCHANGED aborted
    /\ Record("parent_child", p, c, 0)
    /\ NoSwapRun
    /\ UNCHANGED <<alloc, live, handles, value>>

SwapHistory(p, c) ==
    /\ swapRun' = IF call.op = "swap" /\ call.p = p /\ call.c = c
                  THEN (IF swapRun < 2 THEN swapRun + 1 ELSE 2)
                  ELSE 1
    /\ runStart' = IF call.op = "swap" /\ call.p = p /\ call.c = c
                   THEN runStart ELSE value

swap_overwrite(p, c) ==
    /\ p \in handles
    /\ c \in handles
    /\ panicked' = FALSE
    /\ result' = [status |-> "ok", ret |-> Unit]
    /\ value' = [value EXCEPT ![p] = value[c]]
    /\ Record("swap", p, c, 0)
    /\ SwapHistory(p, c)
    /\ UNCHANGED <<alloc, live, handles, parent, children, attached, aborted>>

swap_relink(p, c) ==
    /\ p \in handles
    /\ c \in handles
    /\ panicked' = TRUE
    /\ result' = [status |-> "panic: not implemented", ret |-> Unit]
    /\ children' = [children EXCEPT ![p] = children[c], ![c] = children[p]]
    /\ Record("swap", p, c, 0)
    /\ SwapHistory(p, c)
    /\ UNCHANGED <<alloc, live, handles, value, parent, attached, aborted>>

\* Node::swap(&parent, &child): the body is unimplemented!(), which panics
\* before it reads or writes anything.  No borrow is held when it panics, so a
\* caller that catches the unwind finds every node usable and can call again.
swap(p, c) ==
    /\ p \in handles
    /\ c \in handles
    /\ panicked' = TRUE
    /\ result' = [status |-> "panic: not implemented", ret |-> Unit]
    /\ Record("swap", p, c, 0)
    /\ SwapHistory(p, c)
    /\ UNCHANGED <<alloc, live, handles, value, parent, children, attached, aborted>>

\* node.get_value()
GetValue(n) ==
    /\ n \in handles
    /\ result' = [status |-> "ok", ret |-> <<get_value(n)>>]
    /\ Record("get_value", n, 0, 0)
    /\ NoSwapRun
    /\ panicked' = FALSE
    /\ UNCHANGED <<alloc, live, handles, value, parent, children, aborted, attached>>

\* node.get_child_values()
GetChildValues(n) ==
    /\ n \in handles
    /\ result' = [status |-> "ok", ret |-> get_child_values(n)]
    /\ Record("get_child_values", n, 0, 0)
    /\ NoSwapRun
    /\ panicked' = FALSE
    /\ UNCHANGED <<alloc, live, handles, value, parent, children, aborted, attached>>

\* format!("{:?}", node): the derived Debug of Node, which any caller can run on
\* a handle.  It aborts the process when the formatting overflows the stack and
\* otherwise returns the text, of which the values are kept, in printing order.
DebugFmt(n) ==
    /\ n \in handles
    /\ IF fmt_overflows(n)
       THEN /\ aborted' = TRUE
            /\ result' = [status |-> "abort: stack overflow", ret |-> Unit]
       ELSE /\ result' = [status |-> "ok", ret |-> fmt(n)]
            /\ UNCHANGED aborted
    /\ Record("fmt", n, 0, 0)
    /\ NoSwapRun
    /\ panicked' = FALSE
    /\ UNCHANGED <<alloc, live, handles, value, parent, children, attached>>

\* The caller drops its Rc of cell h (at the end of a scope, or while a panic
\* unwinds; never after an abort, which runs no destructor): every cell whose strong count reaches zero is freed.
Drop(h) ==
    /\ h \in handles
    /\ handles' = handles \ {h}
    /\ LET L == Release(live, handles \ {h}, children) IN
        /\ live' = L
        /\ value' = [m \in L |-> value[m]]
        /\ parent' = [m \in L |-> parent[m]]
        /\ children' = [m \in L |-> children[m]]
        /\ attached' = [m \in L |-> attached[m]]
    /\ result' = [status |-> "ok", ret |-> Unit]
    /\ Record("drop", h, 0, 0)
    /\ NoSwapRun
    /\ panicked' = FALSE
    /\ UNCHANGED <<alloc, aborted>>

Next ==
    \/ \E v \in Values : new_orphan(v)
    \/ \E p \in NodeIds, v \in Values : new_child(p, v)
    \/ \E p \in NodeIds, c \in NodeIds, stdout_ok \in BOOLEAN : parent_child(p, c, stdout_ok)
    \/ \E p \in NodeIds, c \in NodeIds : swap(p, c)
    \/ \E n \in NodeIds : GetValue(n)
    \/ \E n \in NodeIds : GetChildValues(n)
    \/ \E n \in NodeIds : DebugFmt(n)
    \/ \E h \in NodeIds : Drop(h)

Spec == Init /\ [][Next]_vars

----------------------------------------------------------------------------
\* Histories of the last call.

\* The last call was swap(P, C) with C in P's children.
SwapOfChild == call.op = "swap" /\ call.c \in Range(pre.children[call.p])

\* child-values of p before the last call.
PreChildValues(p) == [i \in 1..Len(pre.children[p]) |-> pre.value[pre.children[p][i]]]

----------------------------------------------------------------------------
\* Claims.

\* C1: for every P and direct child C of P (another cell), swap(P, C) completes and afterwards
\* P holds C's value from before the call and C holds P's value from before it.
C1_SwapExchanges ==
    (SwapOfChild /\ call.p # call.c) =>
        /\ result.status = "ok"
        /\ value[call.p] = pre.value[call.c]
        /\ value[call.c] = pre.value[call.p]

\* C2: swap(P, X) with X another cell not in P's children fails with InvalidRelation and
\* leaves every value as it was.
C2_SwapRejectsNonChild ==
    (call.op = "swap" /\ call.p # call.c /\ call.c \notin Range(pre.children[call.p])) =>
        /\ result.status = "InvalidRelation"
        /\ value = pre.value
        /\ parent = pre.parent
        /\ children = pre.children

\* C3: swap(P, C) on a direct child changes no parent reference, no children
\* sequence, and no value other than those of P and C.
C3_SwapFrame ==
    SwapOfChild =>
        /\ live = pre.live
        /\ parent = pre.parent
        /\ children = pre.children
        /\ \A n \in live \ {call.p, call.c} : value[n] = pre.value[n]

\* C3 witness: swap was called on a parent and a direct child that has a child
\* of its own, so there are edges and a third value to preserve.
C3_SwapFrameWitness ==
    /\ SwapOfChild
    /\ call.p # call.c
    /\ children[call.c] # <<>>
    /\ live \ {call.p, call.c} # {}

\* C4: after two swap(P, C) calls in a row on a direct child C of P, the values
\* of P and C are those from before the first call.
C4_SwapTwiceRestores ==
    (swapRun = 2 /\ SwapOfChild) =>
        /\ value[call.p] = runStart[call.p]
        /\ value[call.c] = runStart[call.c]

\* C4 witness: swap was called twice in a row on a parent and a direct child
\* holding a different value.
C4_SwapTwiceWitness ==
    /\ swapRun = 2
    /\ SwapOfChild
    /\ call.p # call.c
    /\ runStart[call.p] # runStart[call.c]

\* C5: between calls, for all live A and B, A's parent reference resolves to B
\* if and only if B's children sequence contains A.
C5_MutualConsistency ==
    \A a \in live, b \in live :
        (parent_upgrade(a) = b) <=> (a \in Range(children[b]))

\* C6: new_child(P, v) creates exactly one new cell with value v and no
\* children, appends it as the last child of P, makes its parent reference
\* resolve to P, and leaves every other cell and P's earlier children as they were.
C6_NewChildAppends ==
    call.op = "new_child" =>
        /\ call.c \notin pre.live
        /\ live = pre.live \cup {call.c}
        /\ value[call.c] = call.v
        /\ children[call.c] = <<>>
        /\ children[call.p] = Append(pre.children[call.p], call.c)
        /\ get_child_values(call.p) = Append(PreChildValues(call.p), call.v)
        /\ parent_upgrade(call.c) = call.p
        /\ \A m \in pre.live :
              /\ value[m] = pre.value[m]
              /\ parent[m] = pre.parent[m]
              /\ m # call.p => children[m] = pre.children[m]

\* C6 witness: a second child with a different value was attached.
C6_NewChildWitness ==
    /\ call.op = "new_child"
    /\ Len(pre.children[call.p]) = 1
    /\ PreChildValues(call.p)[1] # call.v

\* C7: no cell is its own descendant along children edges, nor its own
\* ancestor along parent references.
C7_Acyclic ==
    \A n \in live : n \notin Descendants(n) /\ n \notin Ancestors(n)

\* C8: once a handle has been dropped, no cell stays allocated unless a handle
\* the caller still holds owns it, directly or through children sequences.
C8_CascadingRelease ==
    call.op = "drop" => \A n \in live : n \in Reachable

\* C9: get_child_values(N) returns the current values of the cells attached or
\* linked to N, one per attachment, in attachment order (empty for a leaf), and
\* changes no value, parent reference or children sequence.
C9_ChildValuesInOrder ==
    call.op = "get_child_values" =>
        /\ result.status = "ok"
        /\ Len(result.ret) = Len(attached[call.p])
        /\ \A i \in 1..Len(attached[call.p]) :
              result.ret[i] = value[attached[call.p][i]]
        /\ children[call.p] = <<>> => result.ret = <<>>
        /\ Snapshot = pre

\* C9 witness: child values were read from a cell with two children holding
\* different values.
C9_ChildValuesWitness ==
    /\ call.op = "get_child_values"
    /\ Len(result.ret) = 2
    /\ result.ret[1] # result.ret[2]

\* C10: parent_child(P2, C) that returns, on a C whose parent reference resolves to P1, either
\* fails with AlreadyAttached and changes nothing, or takes C out of P1's
\* children before attaching it to P2; and every cell is in the children
\* sequence of at most one cell.
C10_NoStaleEntry ==
    /\ (call.op = "parent_child" /\ ~aborted /\ ~panicked /\ pre.parent[call.c] \in pre.live) =>
          \/ /\ result.status = "AlreadyAttached"
             /\ parent = pre.parent
             /\ children = pre.children
          \/ /\ result.status = "ok"
             /\ parent_upgrade(call.c) = call.p
             /\ call.c \in Range(children[call.p])
             /\ pre.parent[call.c] # call.p =>
                   call.c \notin Range(children[pre.parent[call.c]])
    /\ \A n \in live : Cardinality({p \in live : n \in Range(children[p])}) <= 1

====
